---- MODULE Spec2Model ----
(***************************************************************************)
(* Model of comfy_pack's model resolution (package.py: retrive_models,     *)
(* create_model_symlink, download_file) over an abstract file system made   *)
(* of the Global Model Store (MODEL_DIR) and one workspace.                 *)
(***************************************************************************)
EXTENDS Integers, Sequences, FiniteSets, TLC

\* ------------------------------------------------------------------ bounds
MaxPrompts == 2     \* answers other than 'skip' the user gives per entry

\* ------------------------------------------------------------ file system
\* File contents are sequences of blocks; a download writes them one by one.
DataA == <<1, 2>>
DataB == <<2, 1>>
Data == {DataA, DataB}

\* hash.get_sha256: the digest of a file's content (collision free).
get_sha256(data) == <<"sha256", data>>

Hashes == {get_sha256(d) : d \in Data}

\* The filenames of snapshot["models"], in manifest order.
ModelFiles == <<"a.safetensors", "b.safetensors">>
Filenames == {ModelFiles[i] : i \in DOMAIN ModelFiles}

\* Resolution passes that may run; Spec runs them one at a time.
Procs == {1, 2}

\* What a path holds.
Absent == [kind |-> "absent"]
RegularFile(d) == [kind |-> "file", data |-> d]
Symlink(t) == [kind |-> "symlink", to |-> t]

\* What a symbolic link names.
StorePath(h) == [dir |-> "MODEL_DIR", sha |-> h]
ExternalFile(d) == [dir |-> "external", data |-> d]
NoSuchPath == [dir |-> "nowhere"]

MaxDepth == Cardinality(Hashes) + 1

\* os.stat: the node a path resolves to, following symbolic links.
RECURSIVE stat(_, _, _)
stat(st, node, depth) ==
    IF node.kind # "symlink" THEN node
    ELSE IF depth = 0 THEN Absent
    ELSE IF node.to.dir = "MODEL_DIR" THEN stat(st, st[node.to.sha], depth - 1)
    ELSE IF node.to.dir = "external" THEN RegularFile(node.to.data)
    ELSE Absent

\* Path.exists, Path.is_file (both follow links), Path.is_symlink (does not).
exists(st, node) == stat(st, node, MaxDepth).kind # "absent"
is_file(st, node) == stat(st, node, MaxDepth).kind = "file"
is_symlink(node) == node.kind = "symlink"

\* Where a write to MODEL_DIR/h lands, open() following links: a store
\* entry, the file outside the store that entry `via` links to, or nowhere.
RECURSIVE write_target(_, _, _)
write_target(st, h, depth) ==
    IF st[h].kind # "symlink" THEN [kind |-> "entry", sha |-> h]
    ELSE IF depth = 0 THEN [kind |-> "none"]
    ELSE IF st[h].to.dir = "MODEL_DIR" THEN write_target(st, st[h].to.sha, depth - 1)
    ELSE IF st[h].to.dir = "external" THEN [kind |-> "external", via |-> h]
    ELSE [kind |-> "none"]

\* Writing node n at MODEL_DIR/h.
write_store(st, h, n) ==
    LET t == write_target(st, h, MaxDepth)
    IN  IF t.kind = "entry" THEN [st EXCEPT ![t.sha] = n]
        ELSE IF t.kind = "external" /\ n.kind = "file"
        THEN [st EXCEPT ![t.via] = Symlink(ExternalFile(n.data))]
        ELSE st

\* Path.unlink on MODEL_DIR/h: the entry itself goes, link or file.
unlink(st, h) == [st EXCEPT ![h] = Absent]

NoOps == [move |-> 0, copy |-> 0, unlink |-> 0, symlink |-> 0, download |-> 0]
AddOps(o, d) == [k \in DOMAIN o |-> o[k] + (IF k \in DOMAIN d THEN d[k] ELSE 0)]
Writes(o) == o.move + o.copy + o.unlink + o.symlink + o.download

\* create_model_symlink(global_path, sha, target_path, filename)
create_model_symlink(st, w, sha, filename) ==
    LET target == w[filename]
        linked == [w EXCEPT ![filename] = Symlink(StorePath(sha))]
    IN  IF exists(st, target)
        THEN IF is_symlink(target)
             THEN [ws |-> linked, raised |-> "none", unlink |-> 1, symlink |-> 1]
             ELSE [ws |-> w, raised |-> "RuntimeError", unlink |-> 0, symlink |-> 0]
        ELSE IF target.kind = "absent"
             THEN [ws |-> linked, raised |-> "none", unlink |-> 0, symlink |-> 1]
             ELSE [ws |-> w, raised |-> "FileExistsError", unlink |-> 0, symlink |-> 0]

\* shutil.move done as a copy: the source stays where it was.
shutil_move_keeps_source(st, w, sha, filename) ==
    [store |-> [st EXCEPT ![sha] = w[filename]], ws |-> w]

\* shutil.move(workspace / filename, MODEL_DIR / sha): the node itself is
\* renamed, a symbolic link stays a symbolic link.
shutil_move(st, w, sha, filename) ==
    [store |-> [st EXCEPT ![sha] = w[filename]],
     ws |-> [w EXCEPT ![filename] = Absent]]

\* ------------------------------------------------------------------ state
VARIABLES
    manifest,   \* snapshot["models"]: sequence of [filename, sha256, disabled]
    ws,         \* workspace: filename -> node
    store,      \* MODEL_DIR: hash -> node
    pc,         \* per pass: "idle", "for" (loop head), "input", "join", "returned"
    idx,        \* per pass: index of the entry being resolved
    download,   \* per pass: the download argument
    raised,     \* per pass: the exception that left retrive_models, or "none"
    attempts,   \* per pass: answers read by input() for the current entry
    thread,     \* per pass: the download worker
    ops,        \* per pass: file-system operations performed so far
    prompted,   \* per pass: entries for which the user was prompted
    acquired,   \* per pass: hash -> number of times content entered the store
    linked0,    \* per pass: the workspace was fully linked when the pass began
    moves,      \* filename -> number of shutil.move calls on that slot
    serialised, \* the callers run one pass at a time on the shared store
    stale,      \* slots linked by a cache hit to an entry still being written
    workflow,   \* the workflow document handed to utils.py
    wf_pc,      \* "none", "template", "parsed", "populated", "reparsed", ...
    template_spec,   \* _parse_workflow of the template
    populated_spec,  \* _parse_workflow of the populated document
    wf_kwargs,  \* **inputs of populate_workflow
    wf_raised,  \* the exception that left the last utils.py call, or "none"
    session_id, \* session_id of populate_workflow / retrieve_workflow_outputs
    output_dir, \* output_path: file name -> the (session_id, node_id) that wrote it
    retrieved,  \* what retrieve_workflow_outputs returned
    input_model, \* what generate_input_model returned
    dirs,       \* the workspace and the custom node directory
    venv,       \* workspace/.venv
    inst,       \* the installer call under way: function, snapshot, step
    inst_ops,   \* what the call under way has done so far
    inst_result, \* how the last installer call ended
    install_pc  \* install(): the step it is at and the snapshot it unpacked

modelvars == <<manifest, ws, store, pc, idx, download, raised, attempts, thread,
               ops, prompted, acquired, linked0, moves>>
sharedvars == <<serialised, stale>>

wfvars == <<workflow, wf_pc, template_spec, populated_spec, wf_kwargs,
            wf_raised, session_id, output_dir, retrieved, input_model>>

instvars == <<dirs, venv, inst, inst_ops, inst_result, install_pc>>

vars == <<modelvars, sharedvars, wfvars, instvars>>

\* No installer call is under way.
NoCall == [fn |-> "none", step |-> "none", snapshot |-> <<>>]
NoInstOps == [rmtree |-> 0, clone |-> 0, commands |-> 0]

\* No installer function has been called.
NoInstall ==
    /\ dirs = <<>>
    /\ venv = <<>>
    /\ inst = NoCall
    /\ inst_ops = NoInstOps
    /\ inst_result = "none"
    /\ install_pc = [step |-> "none", snapshot |-> <<>>]

\* No document has been parsed.
NoSpec == [inputs |-> <<>>, outputs |-> <<>>]

\* No utils.py call has been made.
NoWorkflow ==
    /\ workflow = <<>>
    /\ wf_pc = "none"
    /\ template_spec = NoSpec
    /\ populated_spec = NoSpec
    /\ wf_kwargs = <<>>
    /\ wf_raised = "none"
    /\ session_id = <<>>
    /\ output_dir = <<>>
    /\ retrieved = <<>>
    /\ input_model = <<>>

\* No resolution pass runs.
NoPasses ==
    /\ manifest = <<>>
    /\ ws = <<>>
    /\ store = <<>>
    /\ pc = [p \in Procs |-> "idle"]
    /\ idx = <<>>
    /\ download = <<>>
    /\ raised = <<>>
    /\ attempts = <<>>
    /\ thread = <<>>
    /\ ops = <<>>
    /\ prompted = <<>>
    /\ acquired = <<>>
    /\ linked0 = <<>>
    /\ moves = <<>>
    /\ serialised = TRUE
    /\ stale = {}

NoThread == [state |-> "none", body |-> <<>>, result |-> "none"]

Entries == [filename : Filenames, sha256 : Hashes, disabled : BOOLEAN]
Manifests == {m \in [DOMAIN ModelFiles -> Entries] :
                 \A i \in DOMAIN ModelFiles : m[i].filename = ModelFiles[i]}

\* What the user may have put at a workspace slot.
SlotStates ==
    {Absent} \cup {RegularFile(d) : d \in Data}
             \cup {Symlink(StorePath(h)) : h \in Hashes}
             \cup {Symlink(ExternalFile(DataA)), Symlink(NoSuchPath)}

\* A store as the program leaves it when nothing went wrong: each entry is
\* absent or a regular file with the content its name says.
StoreStates == {s \in [Hashes -> {Absent} \cup {RegularFile(d) : d \in Data}] :
                   \A h \in Hashes : s[h] # Absent => get_sha256(s[h].data) = h}

\* Every slot of the manifest is a link to its store entry, which exists.
FullyLinked ==
    \A i \in DOMAIN manifest :
        /\ ws[manifest[i].filename] = Symlink(StorePath(manifest[i].sha256))
        /\ exists(store, store[manifest[i].sha256])

InitModel ==
    /\ manifest \in Manifests
    /\ ws \in [Filenames -> SlotStates]
    /\ store \in StoreStates
    /\ pc = [p \in Procs |-> "idle"]
    /\ idx = [p \in Procs |-> 1]
    /\ download = [p \in Procs |-> FALSE]
    /\ raised = [p \in Procs |-> "none"]
    /\ attempts = [p \in Procs |-> 0]
    /\ thread = [p \in Procs |-> NoThread]
    /\ ops = [p \in Procs |-> NoOps]
    /\ prompted = [p \in Procs |-> {}]
    /\ acquired = [p \in Procs |-> [h \in Hashes |-> 0]]
    /\ linked0 = [p \in Procs |-> FALSE]
    /\ moves = [f \in Filenames |-> 0]

Init ==
    /\ InitModel
    /\ serialised = TRUE
    /\ stale = {}
    /\ NoWorkflow
    /\ NoInstall

\* ----------------------------------------------------------- retrive_models
\* Line 242 without the test that the store lacks the hash.
should_adopt_unchecked(st, w, sha, filename) == is_file(st, w[filename])

\* Lines 252-256 without the test of the disabled flag.
skip_entry_ignores_disabled(model, dl) == ~dl

\* Line 242: a workspace file is adopted when the store lacks the hash.
should_adopt(st, w, sha, filename) ==
    ~exists(st, st[sha]) /\ is_file(st, w[filename])

\* Lines 252-256: an entry found nowhere is passed over when it is disabled
\* or the pass is not interactive.
skip_entry(model, dl) == model.disabled \/ ~dl

\* Body of the for loop up to the prompt (package.py 238-261) for one entry:
\* the file system it leaves, the exception it raises and where it goes next.
resolve_entry(st, w, model, dl) ==
    LET sha == model.sha256
        filename == model.filename
        same == [ws |-> w, store |-> st, raised |-> "none", ops |-> NoOps,
                 moved |-> FALSE, next |-> "continue"]
    IN  IF exists(st, w[filename])
        THEN IF should_adopt(st, w, sha, filename)
             THEN LET mv == shutil_move(st, w, sha, filename)
                      ln == create_model_symlink(mv.store, mv.ws, sha, filename)
                  IN  [ws |-> ln.ws, store |-> mv.store, raised |-> ln.raised,
                       ops |-> AddOps(NoOps, [move |-> 1, unlink |-> ln.unlink,
                                              symlink |-> ln.symlink]),
                       moved |-> TRUE, next |-> "continue"]
             ELSE same
        ELSE IF exists(st, st[sha])
        THEN LET ln == create_model_symlink(st, w, sha, filename)
             IN  [ws |-> ln.ws, store |-> st, raised |-> ln.raised,
                  ops |-> AddOps(NoOps, [unlink |-> ln.unlink, symlink |-> ln.symlink]),
                  moved |-> FALSE, next |-> "continue"]
        ELSE IF skip_entry(model, dl) THEN same
        ELSE [same EXCEPT !.next = "input"]

\* retrive_models(snapshot, workspace, download) is called.
StartPass(p, dl) ==
    /\ pc[p] \in {"idle", "returned"}
    /\ pc' = [pc EXCEPT ![p] = "for"]
    /\ idx' = [idx EXCEPT ![p] = 1]
    /\ download' = [download EXCEPT ![p] = dl]
    /\ raised' = [raised EXCEPT ![p] = "none"]
    /\ attempts' = [attempts EXCEPT ![p] = 0]
    /\ thread' = [thread EXCEPT ![p] = NoThread]
    /\ ops' = [ops EXCEPT ![p] = NoOps]
    /\ prompted' = [prompted EXCEPT ![p] = {}]
    /\ acquired' = [acquired EXCEPT ![p] = [h \in Hashes |-> 0]]
    /\ linked0' = [linked0 EXCEPT ![p] = FullyLinked]
    /\ UNCHANGED <<manifest, ws, store, moves>>

\* `continue` / `break` of the for loop: the next entry, or return.
NextEntry(p) ==
    /\ IF idx[p] < Len(manifest)
       THEN /\ pc' = [pc EXCEPT ![p] = "for"]
            /\ idx' = [idx EXCEPT ![p] = idx[p] + 1]
       ELSE /\ pc' = [pc EXCEPT ![p] = "returned"]
            /\ idx' = idx
    /\ attempts' = [attempts EXCEPT ![p] = 0]
    /\ thread' = [thread EXCEPT ![p] = NoThread]

\* An exception leaves retrive_models.
Raise(p, e) ==
    /\ pc' = [pc EXCEPT ![p] = "returned"]
    /\ raised' = [raised EXCEPT ![p] = e]
    /\ UNCHANGED <<idx, attempts, thread>>

\* One iteration of `for model in models` up to the prompt.
ResolveEntry(p) ==
    /\ pc[p] = "for"
    /\ LET model == manifest[idx[p]]
           r == resolve_entry(store, ws, model, download[p])
       IN  /\ ws' = r.ws
           /\ store' = r.store
           /\ ops' = [ops EXCEPT ![p] = AddOps(ops[p], r.ops)]
           /\ moves' = [moves EXCEPT ![model.filename] = @ + (IF r.moved THEN 1 ELSE 0)]
           /\ acquired' = [acquired EXCEPT ![p][model.sha256] = @ + (IF r.moved THEN 1 ELSE 0)]
           /\ IF r.raised # "none"
              THEN Raise(p, r.raised) /\ UNCHANGED prompted
              ELSE IF r.next = "input"
              THEN /\ pc' = [pc EXCEPT ![p] = "input"]
                   /\ prompted' = [prompted EXCEPT ![p] = @ \cup {idx[p]}]
                   /\ UNCHANGED <<idx, attempts, raised, thread>>
              ELSE NextEntry(p) /\ UNCHANGED <<prompted, raised>>
    /\ UNCHANGED <<manifest, download, linked0>>

\* input() returns 'skip': break.
InputSkip(p) ==
    /\ pc[p] = "input"
    /\ NextEntry(p)
    /\ UNCHANGED <<manifest, ws, store, download, raised, ops, prompted,
                   acquired, linked0, moves>>

\* Lines 316-322: create the link; any exception is caught and the user is
\* asked again, success breaks out of the while loop.  `st` is the store the
\* link is created against, `extra` the operations that preceded the call,
\* `asked` the answers read so far for this entry.
LinkOrRetry(p, st, extra, asked) ==
    LET model == manifest[idx[p]]
        ln == create_model_symlink(st, ws, model.sha256, model.filename)
    IN  /\ ws' = ln.ws
        /\ ops' = [ops EXCEPT ![p] = AddOps(AddOps(ops[p], extra),
                                            [unlink |-> ln.unlink, symlink |-> ln.symlink])]
        /\ acquired' = [acquired EXCEPT ![p][model.sha256] = @ + 1]
        /\ IF ln.raised = "none"
           THEN NextEntry(p)
           ELSE /\ pc' = [pc EXCEPT ![p] = "input"]
                /\ attempts' = [attempts EXCEPT ![p] = asked]
                /\ UNCHANGED <<idx, thread>>

\* `continue` of the while loop: back to input().
Retry(p, asked) ==
    /\ pc' = [pc EXCEPT ![p] = "input"]
    /\ attempts' = [attempts EXCEPT ![p] = asked]
    /\ UNCHANGED <<idx, thread>>

\* input() returns a local path (package.py 297-322); `file` is what that
\* path holds.
InputLocal(p, file) ==
    /\ pc[p] = "input"
    /\ attempts[p] < MaxPrompts
    /\ LET sha == manifest[idx[p]].sha256
       IN  IF file.kind = "absent" \/ get_sha256(file.data) # sha
           THEN /\ Retry(p, attempts[p] + 1)
                /\ UNCHANGED <<ws, store, ops, acquired>>
           ELSE /\ store' = write_store(store, sha, file)
                /\ LinkOrRetry(p, write_store(store, sha, file), [copy |-> 1],
                               attempts[p] + 1)
    /\ UNCHANGED <<manifest, download, raised, prompted, linked0, moves>>

\* input() returns a URL (package.py 270-279): the worker is started.
\* `body` is what the server would send.
InputURL(p, body) ==
    /\ pc[p] = "input"
    /\ attempts[p] < MaxPrompts
    /\ thread' = [thread EXCEPT ![p] = [state |-> "started", body |-> body,
                                        result |-> "none"]]
    /\ pc' = [pc EXCEPT ![p] = "join"]
    /\ attempts' = [attempts EXCEPT ![p] = @ + 1]
    /\ ops' = [ops EXCEPT ![p] = AddOps(@, [download |-> 1])]
    /\ UNCHANGED <<manifest, ws, store, idx, download, raised, prompted,
                   acquired, linked0, moves>>

\* ------------------------------------------------------------ download_file
\* The worker's destination, MODEL_DIR / sha of the entry being resolved.
dest_path(p) == manifest[idx[p]].sha256

\* urlopen succeeded and open(dest_path, "wb") created or truncated the file.
DownloadOpen(p) ==
    /\ thread[p].state = "started"
    /\ store' = write_store(store, dest_path(p), RegularFile(<<>>))
    /\ thread' = [thread EXCEPT ![p].state = "reading"]
    /\ UNCHANGED <<manifest, ws, pc, idx, download, raised, attempts, ops,
                   prompted, acquired, linked0, moves>>

\* One turn of the read loop: a block is written, or the empty read ends the
\* loop and download_file returns True.
DownloadRead(p) ==
    /\ thread[p].state = "reading"
    /\ LET t == write_target(store, dest_path(p), MaxDepth)
       IN  IF thread[p].body = <<>>
           THEN /\ thread' = [thread EXCEPT ![p].state = "finished",
                                            ![p].result = "True"]
                /\ store' = store
           ELSE /\ thread' = [thread EXCEPT ![p].body = Tail(@)]
                /\ store' = IF t.kind = "entry" /\ store[t.sha].kind = "file"
                            THEN [store EXCEPT ![t.sha].data =
                                      Append(@, Head(thread[p].body))]
                            ELSE IF t.kind = "external"
                            THEN [store EXCEPT ![t.via].to.data =
                                      Append(@, Head(thread[p].body))]
                            ELSE store
    /\ UNCHANGED <<manifest, ws, pc, idx, download, raised, attempts, ops,
                   prompted, acquired, linked0, moves>>

\* urlopen, read or write raised: the partial file is removed if it exists
\* and download_file returns False.
DownloadFail(p) ==
    /\ thread[p].state \in {"started", "reading"}
    /\ thread' = [thread EXCEPT ![p].state = "finished", ![p].result = "False"]
    /\ IF exists(store, store[dest_path(p)])
       THEN /\ store' = unlink(store, dest_path(p))
            /\ ops' = [ops EXCEPT ![p] = AddOps(@, [unlink |-> 1])]
       ELSE UNCHANGED <<store, ops>>
    /\ UNCHANGED <<manifest, ws, pc, idx, download, raised, attempts,
                   prompted, acquired, linked0, moves>>

\* A join() that returns at once.
join_without_waiting(p) == TRUE

\* download_thread.join() returns once the worker has finished.
join(p) == thread[p].state = "finished"

\* What line 292 does with the file that failed verification.
discard(st, sha) == unlink(st, sha)

\* After join(): package.py 282-295, then 316-322.
JoinAndVerify(p) ==
    /\ pc[p] = "join"
    /\ join(p)
    /\ LET sha == manifest[idx[p]].sha256
           target == stat(store, store[sha], MaxDepth)
       IN  IF target.kind = "absent"
           THEN /\ Retry(p, attempts[p])
                /\ UNCHANGED <<ws, store, ops, acquired>>
           ELSE IF get_sha256(target.data) # sha
           THEN /\ store' = discard(store, sha)
                /\ ops' = [ops EXCEPT ![p] = AddOps(@, [unlink |-> 1])]
                /\ Retry(p, attempts[p])
                /\ UNCHANGED <<ws, acquired>>
           ELSE /\ store' = store
                /\ LinkOrRetry(p, store, NoOps, attempts[p])
    /\ UNCHANGED <<manifest, download, raised, prompted, linked0, moves>>

\* ------------------------------------------------------------ specification
\* What the user's local path may hold.
LocalFiles == {Absent} \cup {RegularFile(d) : d \in Data}

Step(p) ==
    \/ \E dl \in BOOLEAN : StartPass(p, dl)
    \/ ResolveEntry(p)
    \/ InputSkip(p)
    \/ \E file \in LocalFiles : InputLocal(p, file)
    \/ \E body \in Data : InputURL(p, body)
    \/ DownloadOpen(p)
    \/ DownloadRead(p)
    \/ DownloadFail(p)
    \/ JoinAndVerify(p)

\* One operator drives one resolution pass at a time.
Next == Step(1) /\ UNCHANGED <<sharedvars, wfvars, instvars>>

Spec == Init /\ [][Next]_vars

\* ------------------------------------------------------------------ claims
Slot(i) == manifest[i].filename
Sha(i) == manifest[i].sha256

\* Entry i's slot is a link to its store entry, a regular file whose content
\* has the declared hash.
Linked(i) ==
    /\ ws[Slot(i)] = Symlink(StorePath(Sha(i)))
    /\ store[Sha(i)].kind = "file"
    /\ get_sha256(store[Sha(i)].data) = Sha(i)

\* C1: whenever a pass has returned, every store entry named h is a regular
\* file whose content hashes to h.
C1_StoreContentAddressed ==
    \A p \in Procs :
        pc[p] = "returned" =>
            \A h \in Hashes :
                store[h] # Absent =>
                    store[h].kind = "file" /\ get_sha256(store[h].data) = h

\* C2: when an entry is resolved whose slot holds a regular file with the
\* declared hash while the store has no entry for it, that step moves the file
\* into the store under the hash (one move) and leaves a link to it at the
\* slot; a slot adopted that way stays linked and is never moved again.
C2_HashAdoption ==
    [][\A p \in Procs : \A i \in DOMAIN manifest :
        /\ ( /\ pc[p] = "for" /\ idx[p] = i
             /\ ws[Slot(i)].kind = "file"
             /\ get_sha256(ws[Slot(i)].data) = Sha(i)
             /\ store[Sha(i)] = Absent )
           => /\ store'[Sha(i)] = ws[Slot(i)]
              /\ Linked(i)'
              /\ moves'[Slot(i)] = moves[Slot(i)] + 1
              /\ ops'[p].move = ops[p].move + 1
              /\ raised'[p] = "none"
        /\ (Linked(i) /\ moves[Slot(i)] = 1)
           => Linked(i)' /\ moves'[Slot(i)] = moves[Slot(i)]
      ]_vars

\* C2 witness: a file with the declared hash was adopted by one move, and a
\* later pass returned without moving anything.
C2_Witness ==
    \E i \in DOMAIN manifest :
        /\ Linked(i) /\ moves[Slot(i)] = 1
        /\ pc[1] = "returned" /\ raised[1] = "none" /\ ops[1].move = 0

\* C3: resolving an entry whose declared hash is in the store ends with the
\* slot linked to that store entry and raises nothing, whether the slot was
\* absent, a link to that entry, a link to another store entry or a dangling
\* link.
C3_CacheHit ==
    [][\A p \in Procs : \A i \in DOMAIN manifest :
        ( /\ pc[p] = "for" /\ idx[p] = i
          /\ store[Sha(i)] # Absent
          /\ ws[Slot(i)] \in {Absent, Symlink(NoSuchPath)}
                                \cup {Symlink(StorePath(h)) : h \in Hashes} )
        => /\ ws'[Slot(i)] = Symlink(StorePath(Sha(i)))
           /\ raised'[p] = "none"
      ]_vars

\* C4: resolving an entry whose slot holds a regular file with content other
\* than the declared one raises RuntimeError and leaves the file and the store
\* as they were.
C4_ConflictDetection ==
    [][\A p \in Procs : \A i \in DOMAIN manifest :
        ( /\ pc[p] = "for" /\ idx[p] = i
          /\ ws[Slot(i)].kind = "file"
          /\ get_sha256(ws[Slot(i)].data) # Sha(i) )
        => /\ raised'[p] = "RuntimeError"
           /\ ws'[Slot(i)] = ws[Slot(i)]
           /\ store' = store
      ]_vars

\* C5: a pass begun on a fully linked workspace performs no file-system
\* operation, starts no download, prompts for nothing and raises nothing,
\* whatever its download flag.
C5_Idempotent ==
    \A p \in Procs :
        linked0[p] =>
            /\ pc[p] \in {"for", "returned"}
            /\ Writes(ops[p]) = 0
            /\ prompted[p] = {}
            /\ raised[p] = "none"
            /\ thread[p] = NoThread
            /\ FullyLinked

\* C5 witness: an interactive pass begun on a fully linked workspace returned.
C5_Witness == linked0[1] /\ pc[1] = "returned" /\ download[1]

\* C6: after a pass that returned normally, for two entries declaring the same
\* hash whose slots both hold something, if the store has the hash then both
\* slots are links to that one store entry, and the content entered the store
\* at most once.
C6_Dedup ==
    \A p \in Procs :
        (pc[p] = "returned" /\ raised[p] = "none") =>
            \A i, j \in DOMAIN manifest :
                ( /\ i < j /\ Sha(i) = Sha(j)
                  /\ store[Sha(i)] # Absent
                  /\ ws[Slot(i)] # Absent /\ ws[Slot(j)] # Absent )
                => /\ acquired[p][Sha(i)] <= 1
                   /\ ws[Slot(i)] = Symlink(StorePath(Sha(i)))
                   /\ ws[Slot(j)] = Symlink(StorePath(Sha(j)))

\* C7: when the downloaded file, or the file at the local path the user gave,
\* does not have the declared hash, the step leaves no store entry under that
\* hash, leaves the workspace as it was, raises nothing and goes back to the
\* prompt for the same entry.
C7_HashMismatch ==
    [][\A p \in Procs : \A i \in DOMAIN manifest :
        LET recovered == /\ store'[Sha(i)] = Absent
                         /\ ws' = ws
                         /\ raised'[p] = "none"
                         /\ pc'[p] = "input" /\ idx'[p] = i
        IN  /\ ( /\ pc[p] = "join" /\ idx[p] = i /\ thread[p].state = "finished"
                 /\ store[Sha(i)].kind = "file"
                 /\ get_sha256(store[Sha(i)].data) # Sha(i) )
               => recovered
            /\ \A file \in LocalFiles :
                 ( /\ idx[p] = i
                   /\ file.kind = "file" /\ get_sha256(file.data) # Sha(i)
                   /\ InputLocal(p, file) )
                 => recovered
      ]_vars

\* C7 witness: a download ran to its end, the file failed verification and was
\* removed, and the user is at the prompt again.
C7_Witness ==
    /\ pc[1] = "input" /\ attempts[1] >= 1
    /\ thread[1].result = "True"
    /\ store[dest_path(1)] = Absent
    /\ ops[1].unlink >= 1

\* C8: inside the prompt loop nothing is raised to the caller; the loop is left
\* only with the slot linked to a verified store entry or by 'skip'; and a
\* local path to a file with the declared hash always ends the loop linked.
C8_PromptLoop ==
    [][\A p \in Procs : \A i \in DOMAIN manifest :
        (pc[p] \in {"input", "join"} /\ idx[p] = i) =>
            /\ raised'[p] = "none"
            /\ pc'[p] \in {"input", "join"} \/ Linked(i)' \/ InputSkip(p)
            /\ \A file \in LocalFiles :
                 ( /\ file.kind = "file" /\ get_sha256(file.data) = Sha(i)
                   /\ InputLocal(p, file) )
                 => pc'[p] \notin {"input", "join"} /\ Linked(i)'
      ]_vars

\* C9: an entry found neither in the workspace nor in the store, when it is
\* disabled or the pass has download=False, is passed over: nothing is
\* written, no prompt is issued, no worker is started, nothing is raised and
\* the loop goes to the next entry; and a download=False pass never prompts.
C9_SkipFrame ==
    /\ [](\A p \in Procs :
            ~download[p] => prompted[p] = {} /\ pc[p] \notin {"input", "join"})
    /\ [][\A p \in Procs : \A i \in DOMAIN manifest :
            ( /\ pc[p] = "for" /\ idx[p] = i
              /\ ~exists(store, ws[Slot(i)])
              /\ ~exists(store, store[Sha(i)])
              /\ (manifest[i].disabled \/ ~download[p]) )
            => /\ ws' = ws /\ store' = store
               /\ ops'[p] = ops[p]
               /\ prompted'[p] = prompted[p]
               /\ thread'[p] = NoThread
               /\ raised'[p] = "none"
               /\ IF i < Len(manifest)
                  THEN pc'[p] = "for" /\ idx'[p] = i + 1
                  ELSE pc'[p] = "returned"
       ]_vars

\* C9 witness: an interactive pass returned having passed over a disabled
\* entry that is in neither place, without prompting for it.
C9_Witness ==
    /\ pc[1] = "returned" /\ download[1]
    /\ manifest[1].disabled
    /\ ws[Slot(1)] = Absent /\ store[Sha(1)] = Absent
    /\ 1 \notin prompted[1]

Active(p) == thread[p].state \in {"started", "reading"}

\* C10: while a download worker runs the pass waits in join() and does
\* nothing: only the worker acts, and only on its destination; a worker is
\* started only when none runs; and the pass goes on to verification only
\* once the worker has finished.
C10_FireAndJoin ==
    /\ [](\A p \in Procs : Active(p) => pc[p] = "join")
    /\ [][\A p \in Procs :
            /\ Active(p) =>
                 /\ pc'[p] = "join" /\ idx'[p] = idx[p]
                 /\ ws' = ws
                 /\ attempts'[p] = attempts[p]
                 /\ prompted'[p] = prompted[p]
                 /\ \A h \in Hashes \ {dest_path(p)} : store'[h] = store[h]
            /\ (thread'[p].state = "started" /\ thread[p] # thread'[p]) => ~Active(p)
            /\ (pc[p] = "join" /\ pc'[p] # "join") => thread[p].state = "finished"
       ]_vars

\* C10 witness: the worker has written part of the file while the pass waits.
C10_Witness ==
    /\ pc[1] = "join" /\ thread[1].state = "reading"
    /\ store[dest_path(1)].kind = "file"
    /\ Len(store[dest_path(1)].data) = 1

\* ------------------------------------------------- two passes on one store
\* retrive_models takes no lock on MODEL_DIR (package.py 247-250, 270-293):
\* whether two passes overlap is decided by their callers alone.

\* The callers let passes overlap.
may_run_unserialised(p) == TRUE

\* A pass runs only while no other pass is under way, when the callers
\* serialise (install, package.py 342-346, calls one pass and returns).
may_run(p) ==
    ~serialised \/ \A q \in Procs \ {p} : pc[q] \in {"idle", "returned"}

\* Lines 247-250 are about to link a slot to a store entry that the worker
\* of another pass has opened and not yet finished writing.
hits_entry_being_written(p) ==
    /\ pc[p] = "for"
    /\ LET model == manifest[idx[p]]
           r == resolve_entry(store, ws, model, download[p])
       IN  /\ ~r.moved
           /\ r.ops.symlink = 1
           /\ \E q \in Procs \ {p} : Active(q) /\ dest_path(q) = model.sha256

\* The pass that never prompts: retrive_models(..., download=False).
Unattended == 2

\* A step of pass p; each of the two callers runs one pass.
SharedStep(p) ==
    /\ pc[p] # "returned"
    /\ may_run(p)
    /\ Step(p)
    /\ ~download'[Unattended]
    /\ stale' = IF hits_entry_being_written(p)
                THEN stale \cup {manifest[idx[p]].filename}
                ELSE stale
    /\ UNCHANGED <<serialised, wfvars, instvars>>

\* Two operators install the same snapshot into a workspace that holds at
\* most model files the user put there.
InitShared ==
    /\ InitModel
    /\ \A f \in Filenames : ws[f] \in LocalFiles
    /\ serialised \in BOOLEAN
    /\ stale = {}
    /\ NoWorkflow
    /\ NoInstall

NextShared == \E p \in Procs : SharedStep(p)

SpecShared == InitShared /\ [][NextShared]_vars

\* C11: while the callers serialise the passes, no pass ever takes a cache
\* hit on, and links a slot to, a store entry that another pass is still
\* downloading; without serialisation such a link is made, and the entry is
\* later deleted for failing verification (C11_Witness).
C11_SerialisedStore == serialised => stale = {}

\* Unserialised passes: a slot linked by a cache hit to an entry that was
\* being downloaded, the entry since deleted by the downloading pass.
C11_Witness ==
    /\ ~serialised
    /\ \E i \in DOMAIN manifest :
           /\ Slot(i) \in stale
           /\ ws[Slot(i)] = Symlink(StorePath(Sha(i)))
           /\ store[Sha(i)] = Absent
           /\ \E q \in Procs : /\ pc[q] = "input" /\ idx[q] = i
                               /\ thread[q].result = "True"
                               /\ ops[q].unlink > 0
\* ------------------------------------------------------- utils.py: strings
\* A str is a sequence of one-character strings.
LowerLetters == <<"a", "b", "c", "d", "e", "f", "g", "h", "i", "j", "k", "l", "m",
                  "n", "o", "p", "q", "r", "s", "t", "u", "v", "w", "x", "y", "z">>
UpperLetters == <<"A", "B", "C", "D", "E", "F", "G", "H", "I", "J", "K", "L", "M",
                  "N", "O", "P", "Q", "R", "S", "T", "U", "V", "W", "X", "Y", "Z">>
Letters == {LowerLetters[i] : i \in DOMAIN LowerLetters}
               \cup {UpperLetters[i] : i \in DOMAIN UpperLetters}
Digits == {"0", "1", "2", "3", "4", "5", "6", "7", "8", "9"}

\* str.isidentifier on ASCII text.
isidentifier(s) ==
    /\ s # <<>>
    /\ s[1] \in Letters \cup {"_"}
    /\ \A i \in DOMAIN s : s[i] \in Letters \cup Digits \cup {"_"}

\* str.lower on one character.
lower(c) ==
    IF \E i \in DOMAIN UpperLetters : UpperLetters[i] = c
    THEN LowerLetters[CHOOSE i \in DOMAIN UpperLetters : UpperLetters[i] = c]
    ELSE c

\* re.sub(r"_+", "_", s)
RECURSIVE collapse_underscores(_)
collapse_underscores(s) ==
    IF Len(s) < 2 THEN s
    ELSE IF s[1] = "_" /\ s[2] = "_" THEN collapse_underscores(Tail(s))
    ELSE <<s[1]>> \o collapse_underscores(Tail(s))

\* s.strip("_")
RECURSIVE strip_underscores(_)
strip_underscores(s) ==
    IF s = <<>> THEN s
    ELSE IF s[1] = "_" THEN strip_underscores(Tail(s))
    ELSE IF s[Len(s)] = "_" THEN strip_underscores(SubSeq(s, 1, Len(s) - 1))
    ELSE s

\* _normalize_to_identifier(s), utils.py 32-44.
_normalize_to_identifier(s) ==
    IF s = <<>> THEN <<"_">>
    ELSE LET subbed == [i \in DOMAIN s |->
                           IF s[i] \in Letters \cup Digits \cup {"_"}
                           THEN s[i] ELSE "_"]
             prefixed == IF subbed[1] \in Digits THEN <<"_">> \o subbed ELSE subbed
             stripped == strip_underscores(collapse_underscores(prefixed))
             named == IF stripped = <<>> THEN <<"_">> ELSE stripped
         IN  [i \in DOMAIN named |-> lower(named[i])]

\* ------------------------------------------------- utils.py: the document
\* A workflow document is the sequence of its nodes in dict order; a node is
\* [id, class_type, title, inputs, options], id being its document key and
\* inputs the sequence of [name, value] pairs of node["inputs"].

\* Input values: a scalar, or a list (a list of two items reads as a link).
Scalar(x) == [list |-> FALSE, v |-> x]
List(xs) == [list |-> TRUE, v |-> xs]
is_link(val) == val.list /\ Len(val.v) = 2

\* class_type.startswith("CPackInput") / ("CPackOutput") over the class
\* types of the model.
CPACK_OUTPUT_NODES == {"CPackOutputFile", "CPackOutputImage"}
CPACK_PATH_INPUT_NODES == {"CPackInputFile", "CPackInputImage"}
ClassTypes == {"CPackInputValue", "CPackInputImage", "CPackInputFile",
               "CPackInputString", "CPackOutputFile", "CPackOutputImage",
               "CPackOutputZip", "KSampler"}
is_input_class(c) ==
    c \in {"CPackInputValue", "CPackInputImage", "CPackInputFile", "CPackInputString"}
is_output_class(c) == c \in {"CPackOutputFile", "CPackOutputImage", "CPackOutputZip"}

\* Updating a dict: the key keeps its place, or is added.
Put(d, k, v) == [x \in DOMAIN d \cup {k} |-> IF x = k THEN v ELSE d[x]]
EmptyDict == [x \in {} |-> 0]

\* Lines 80-83: every two-item list names (producer id, slot); the last
\* consumer in document order is the one remembered.
RECURSIVE dep_map_inputs(_, _, _)
dep_map_inputs(dep, n, ins) ==
    IF ins = <<>> THEN dep
    ELSE dep_map_inputs(
             IF is_link(Head(ins).value)
             THEN Put(dep, Head(ins).value.v, [node |-> n, input_name |-> Head(ins).name])
             ELSE dep,
             n, Tail(ins))

RECURSIVE build_dep_map(_, _, _)
build_dep_map(dep, wf, n) ==
    IF n > Len(wf) THEN dep
    ELSE build_dep_map(dep_map_inputs(dep, n, wf[n].inputs), wf, n + 1)

\* _get_node_identifier with the consumer looked up before the title test.
_get_node_identifier_consumer_first(node, dep_map) ==
    IF <<node.id, 0>> \in DOMAIN dep_map
    THEN _normalize_to_identifier(dep_map[<<node.id, 0>>].input_name)
    ELSE IF isidentifier(node.title) THEN node.title
    ELSE _normalize_to_identifier(node.title)

\* _get_node_identifier(node, dep_map), utils.py 47-59; an absent dep_map is
\* the empty one.
_get_node_identifier(node, dep_map) ==
    IF isidentifier(node.title) THEN node.title
    ELSE IF <<node.id, 0>> \in DOMAIN dep_map
    THEN _normalize_to_identifier(dep_map[<<node.id, 0>>].input_name)
    ELSE _normalize_to_identifier(node.title)

\* f"{name}_{id}"
suffixed(name, id) == name \o <<"_">> \o id

\* Lines 85-96 from node n on: inputs and outputs map a name to the position
\* of its node; dict assignment replaces what the name held.
RECURSIVE parse_nodes(_, _, _, _, _)
parse_nodes(wf, dep_map, n, inputs, outputs) ==
    IF n > Len(wf) THEN [inputs |-> inputs, outputs |-> outputs]
    ELSE LET node == wf[n]
         IN  IF is_input_class(node.class_type)
             THEN LET name == _get_node_identifier(node, dep_map)
                      key == IF name \in DOMAIN inputs
                             THEN suffixed(name, node.id) ELSE name
                  IN  parse_nodes(wf, dep_map, n + 1, Put(inputs, key, n), outputs)
             ELSE IF is_output_class(node.class_type)
             THEN LET name == _get_node_identifier(node, EmptyDict)
                      key == IF name \in DOMAIN inputs
                             THEN suffixed(name, node.id) ELSE name
                  IN  parse_nodes(wf, dep_map, n + 1, inputs, Put(outputs, key, n))
             ELSE parse_nodes(wf, dep_map, n + 1, inputs, outputs)

\* _parse_workflow(workflow), utils.py 69-98, for an API-format document.
_parse_workflow(wf) ==
    parse_nodes(wf, build_dep_map(EmptyDict, wf, 1), 1, EmptyDict, EmptyDict)

\* node["inputs"][key] = value
set_input(ins, key, value) ==
    IF \E i \in DOMAIN ins : ins[i].name = key
    THEN [i \in DOMAIN ins |-> IF ins[i].name = key
                               THEN [name |-> key, value |-> value] ELSE ins[i]]
    ELSE Append(ins, [name |-> key, value |-> value])

\* _set_node_value(node, value), utils.py 25-29: the first input is set.
_set_node_value(node, value) ==
    [node EXCEPT !.inputs = set_input(@, node.inputs[1].name, value)]

\* Lines 189-191: (output_path / f"{session_id}{node_id}_").as_posix(); the
\* file name part is kept, the directory being output_path.
filename_prefix(session, node_id) == session \o node_id \o <<"_">>

\* Lines 180-184 from keyword i on.
RECURSIVE populate_inputs(_, _, _, _)
populate_inputs(wf, input_spec, kwargs, i) ==
    IF i > Len(kwargs) THEN [workflow |-> wf, raised |-> "none"]
    ELSE IF kwargs[i].k \notin DOMAIN input_spec
    THEN [workflow |-> wf, raised |-> "KeyError"]
    ELSE LET n == input_spec[kwargs[i].k]
         IN  IF ~is_input_class(wf[n].class_type)
             THEN [workflow |-> wf, raised |-> "ValueError"]
             ELSE populate_inputs(
                      [wf EXCEPT ![n] = _set_node_value(@, kwargs[i].v)],
                      input_spec, kwargs, i + 1)

\* Lines 186-191: every recognised output node is given its prefix.
populate_outputs(wf, output_spec, session) ==
    [n \in DOMAIN wf |->
        IF /\ \E k \in DOMAIN output_spec : output_spec[k] = n
           /\ wf[n].class_type \in CPACK_OUTPUT_NODES
        THEN [wf[n] EXCEPT !.inputs =
                 set_input(@, <<"filename_prefix">>,
                           Scalar(filename_prefix(session, wf[n].id)))]
        ELSE wf[n]]

\* populate_workflow(workflow, output_path, session_id, **inputs),
\* utils.py 159-192: the document is changed in place.
populate_workflow(wf, session, kwargs) ==
    LET spec == _parse_workflow(wf)
        r == populate_inputs(wf, spec.inputs, kwargs, 1)
    IN  IF r.raised # "none" THEN r
        ELSE [workflow |-> populate_outputs(r.workflow, spec.outputs, session),
              raised |-> "none"]

\* ------------------------------------------------- utils.py: the operations
\* parse_workflow(workflow) on the template.
ParseWorkflow ==
    /\ wf_pc = "template"
    /\ template_spec' = _parse_workflow(workflow)
    /\ wf_pc' = "parsed"
    /\ UNCHANGED <<workflow, populated_spec, wf_kwargs, wf_raised, session_id,
                   output_dir, retrieved, input_model>>

\* populate_workflow(workflow, output_path, session, **kwargs).
PopulateWorkflow(session, kwargs) ==
    /\ wf_pc = "parsed"
    /\ LET r == populate_workflow(workflow, session, kwargs)
       IN  /\ workflow' = r.workflow
           /\ wf_raised' = r.raised
    /\ session_id' = session
    /\ wf_kwargs' = kwargs
    /\ wf_pc' = "populated"
    /\ UNCHANGED <<template_spec, populated_spec, output_dir, retrieved,
                   input_model>>

\* parse_workflow(workflow) on the populated document.
ReparseWorkflow ==
    /\ wf_pc = "populated"
    /\ wf_raised = "none"
    /\ populated_spec' = _parse_workflow(workflow)
    /\ wf_pc' = "reparsed"
    /\ UNCHANGED <<workflow, template_spec, wf_kwargs, wf_raised, session_id,
                   output_dir, retrieved, input_model>>

\* ------------------------------------------- utils.py: parse and populate
\* Titles: an identifier, the identifier a collision with node 3 produces,
\* and a title that is no identifier.
Titles == {<<"x">>, <<"x", "_", "3">>, <<"M", "y", " ", "i", "m", "g">>}

NodeIds == << <<"1">>, <<"2">>, <<"3">> >>

\* The nodes a document may hold at position n.
NodesAt(n) ==
    {[id |-> NodeIds[n], class_type |-> "CPackInputValue", title |-> t,
      inputs |-> <<[name |-> <<"v", "a", "l", "u", "e">>, value |-> v]>>,
      options |-> <<>>] :
        t \in Titles, v \in {Scalar(5), List(<<NodeIds[1], 0>>), List(<<NodeIds[2], 0>>)}}
    \cup
    {[id |-> NodeIds[n], class_type |-> "CPackOutputImage", title |-> t,
      inputs |-> <<[name |-> <<"i", "m", "a", "g", "e", "s">>, value |-> v]>>,
      options |-> <<>>] :
        t \in Titles, v \in {Scalar(5), List(<<NodeIds[1], 0>>)}}
    \cup
    {[id |-> NodeIds[n], class_type |-> "KSampler", title |-> <<"K">>,
      inputs |-> <<[name |-> nm, value |-> v]>>, options |-> <<>>] :
        nm \in {<<"s", "e", "e", "d">>, <<"C", "F", "G">>},
        v \in {Scalar(5), List(<<NodeIds[1], 0>>), List(<<NodeIds[2], 0>>),
               List(<<NodeIds[1], 1>>)}}

Documents == {<<a, b, c>> : a \in NodesAt(1), b \in NodesAt(2), c \in NodesAt(3)}

\* The values a caller passes: a scalar, or a list of two items.
PopulateValues == {Scalar(9), List(<<NodeIds[1], 0>>)}
UnknownInput == <<"n", "o">>

\* **inputs of one call: nothing, or one keyword.
Kwargs(names) ==
    {<<>>} \cup {<<[k |-> k, v |-> v]>> : k \in names \cup {UnknownInput},
                                          v \in PopulateValues}

InitWorkflow ==
    /\ NoPasses
    /\ NoInstall
    /\ workflow \in Documents
    /\ wf_pc = "template"
    /\ template_spec = NoSpec
    /\ populated_spec = NoSpec
    /\ wf_kwargs = <<>>
    /\ wf_raised = "none"
    /\ session_id = <<>>
    /\ output_dir = <<>>
    /\ retrieved = <<>>
    /\ input_model = <<>>

NextWorkflow ==
    /\ \/ ParseWorkflow
       \/ \E kw \in Kwargs(DOMAIN template_spec.inputs) : PopulateWorkflow(<<>>, kw)
       \/ ReparseWorkflow
    /\ UNCHANGED <<modelvars, sharedvars, instvars>>

SpecWorkflow == InitWorkflow /\ [][NextWorkflow]_vars

InputNodes == {n \in DOMAIN workflow : is_input_class(workflow[n].class_type)}
OutputNodes == {n \in DOMAIN workflow : is_output_class(workflow[n].class_type)}

\* C12: once the document is parsed, every CPackInput* node is under exactly
\* one input name and every CPackOutput* node under exactly one output name
\* (no node is dropped or overwritten), and every mapped node is the node
\* found at its own document key.
C12_ParseUniqueness ==
    wf_pc = "parsed" =>
        /\ \A n \in InputNodes :
               Cardinality({k \in DOMAIN template_spec.inputs :
                               template_spec.inputs[k] = n}) = 1
        /\ \A n \in OutputNodes :
               Cardinality({k \in DOMAIN template_spec.outputs :
                               template_spec.outputs[k] = n}) = 1
        /\ \A k \in DOMAIN template_spec.inputs :
               template_spec.inputs[k] \in InputNodes
        /\ \A k \in DOMAIN template_spec.outputs :
               template_spec.outputs[k] \in OutputNodes

\* C13: parsing the document populate_workflow returned yields the input and
\* output names of the template, bound to the same nodes, whatever accepted
\* values were populated (lists included).
C13_RoundTrip ==
    wf_pc = "reparsed" =>
        /\ populated_spec.inputs = template_spec.inputs
        /\ populated_spec.outputs = template_spec.outputs

\* The nodes that take output slot 0 of node n as an input.
Consumers(n) ==
    {m \in DOMAIN workflow :
        \E i \in DOMAIN workflow[m].inputs :
            /\ workflow[m].inputs[i].value.list
            /\ workflow[m].inputs[i].value.v = <<workflow[n].id, 0>>}

LastConsumer(n) == CHOOSE m \in Consumers(n) : \A o \in Consumers(n) : o <= m

\* The input slot through which m takes slot 0 of n (the last such slot).
ConsumerSlot(m, n) ==
    LET slots == {i \in DOMAIN workflow[m].inputs :
                     /\ workflow[m].inputs[i].value.list
                     /\ workflow[m].inputs[i].value.v = <<workflow[n].id, 0>>}
    IN  workflow[m].inputs[CHOOSE i \in slots : \A j \in slots : j <= i].name

\* The names the parse gave node n.
NamesOf(n) ==
    {k \in DOMAIN template_spec.inputs : template_spec.inputs[k] = n}
        \cup {k \in DOMAIN template_spec.outputs : template_spec.outputs[k] = n}

\* C14 as stated: a node with an identifier title is named exactly by its
\* title; a node with another title whose output slot 0 has a single
\* consumer is named by that consumer's input slot, normalised; every other
\* node by its normalised title.
C14_NamePrecedence ==
    wf_pc = "parsed" =>
        \A n \in InputNodes \cup OutputNodes : \A k \in NamesOf(n) :
            IF isidentifier(workflow[n].title) THEN k = workflow[n].title
            ELSE IF Cardinality(Consumers(n)) = 1
            THEN k = _normalize_to_identifier(ConsumerSlot(LastConsumer(n), n))
            ELSE k = _normalize_to_identifier(workflow[n].title)

\* The name of node n before a collision is broken: the title if it is an
\* identifier; for an input node with consumers of slot 0, the input slot of
\* the last consumer in document order, normalised; else the normalised title.
DerivedName(n) ==
    IF isidentifier(workflow[n].title) THEN workflow[n].title
    ELSE IF n \in InputNodes /\ Consumers(n) # {}
    THEN _normalize_to_identifier(ConsumerSlot(LastConsumer(n), n))
    ELSE _normalize_to_identifier(workflow[n].title)

\* C14 (amended): every name the parse gives a node is the node's derived
\* name, or that name suffixed with "_" and the node id.
C14_NamePrecedenceAmended ==
    wf_pc = "parsed" =>
        \A n \in InputNodes \cup OutputNodes : \A k \in NamesOf(n) :
            k \in {DerivedName(n), suffixed(DerivedName(n), workflow[n].id)}

\* An input node without an identifier title, consumed through two
\* differently named slots, carries the name of the later one.
C14_Witness ==
    /\ wf_pc = "parsed"
    /\ \E n \in InputNodes :
           /\ ~isidentifier(workflow[n].title)
           /\ Cardinality(Consumers(n)) = 2
           /\ \E m \in Consumers(n) :
                  /\ m # LastConsumer(n)
                  /\ ConsumerSlot(m, n) # ConsumerSlot(LastConsumer(n), n)
           /\ NamesOf(n) = {_normalize_to_identifier(ConsumerSlot(LastConsumer(n), n))}

\* C17: populate_workflow called with a key that names no input fails with
\* ValueError, as its docstring says; a key whose node is no input node
\* fails with ValueError as well.
C17_PopulateKeyValidation ==
    (wf_pc = "populated" /\ wf_kwargs # <<>>) =>
        LET k == wf_kwargs[1].k
        IN  /\ k \notin DOMAIN template_spec.inputs => wf_raised = "ValueError"
            /\ (/\ k \in DOMAIN template_spec.inputs
                /\ template_spec.inputs[k] \notin InputNodes)
                   => wf_raised = "ValueError"

\* ------------------------------------------------- utils.py: output files
\* Path.glob(prefix + "*"): the names that begin with prefix.
IsPrefix(prefix, name) ==
    Len(prefix) <= Len(name) /\ SubSeq(name, 1, Len(prefix)) = prefix

glob(dir, prefix) == {name \in DOMAIN dir : IsPrefix(prefix, name)}

\* Lines 222-225 and 234-236: one match is returned alone, else the list.
path_or_list(paths) ==
    IF Cardinality(paths) = 1
    THEN [kind |-> "path", paths |-> paths]
    ELSE [kind |-> "list", paths |-> paths]

\* retrieve_workflow_outputs(workflow, output_path, session_id),
\* utils.py 195-236.
retrieve_workflow_outputs(wf, dir, session) ==
    LET outputs == _parse_workflow(wf).outputs
    IN  IF Cardinality(DOMAIN outputs) # 1
        THEN [raised |-> "none",
              value |-> [k \in DOMAIN outputs |->
                            path_or_list(glob(dir, wf[outputs[k]].id \o <<"_">>))]]
        ELSE LET node == wf[outputs[CHOOSE k \in DOMAIN outputs : TRUE]]
             IN  IF node.class_type \notin CPACK_OUTPUT_NODES
                 THEN [raised |-> "ValueError", value |-> <<>>]
                 ELSE [raised |-> "none",
                       value |-> path_or_list(glob(dir, session \o node.id \o <<"_">>))]

\* The value of input `key` of a node, or <<>> when it has none.
input_value(node, key) ==
    IF \E i \in DOMAIN node.inputs : node.inputs[i].name = key
    THEN node.inputs[CHOOSE i \in DOMAIN node.inputs : node.inputs[i].name = key].value.v
    ELSE <<>>

HasPrefix(n) ==
    \E i \in DOMAIN workflow[n].inputs :
        workflow[n].inputs[i].name = <<"filename_prefix">>

\* What an output node appends to its filename_prefix: a counter.
Counters == {<<"0">>, <<"1">>}

\* The workflow runs: output node n writes a file under its filename_prefix.
WriteOutput(n, c) ==
    /\ wf_pc = "populated"
    /\ wf_raised = "none"
    /\ HasPrefix(n)
    /\ output_dir' = Put(output_dir,
                         input_value(workflow[n], <<"filename_prefix">>) \o c,
                         <<session_id, workflow[n].id>>)
    /\ UNCHANGED <<workflow, wf_pc, template_spec, populated_spec, wf_kwargs,
                   wf_raised, session_id, retrieved, input_model>>

\* retrieve_workflow_outputs(workflow, output_path, session_id), called with
\* the session the document was populated for.
RetrieveOutputs ==
    /\ wf_pc = "populated"
    /\ wf_raised = "none"
    /\ LET r == retrieve_workflow_outputs(workflow, output_dir, session_id)
       IN  /\ retrieved' = r.value
           /\ wf_raised' = r.raised
    /\ wf_pc' = "retrieved"
    /\ UNCHANGED <<workflow, template_spec, populated_spec, wf_kwargs,
                   session_id, output_dir, input_model>>

Sessions == {<<>>, <<"1">>}

\* Documents of two nodes with distinct titles; the first is found under the
\* key "1" or "11".
OutputClassTypes == {"CPackOutputImage", "CPackOutputZip", "KSampler"}
OutputNodeIds == {<<"1">>, <<"1", "1">>, <<"2">>}
OutputDocuments ==
    {<<[id |-> i, class_type |-> c1, title |-> <<"a">>,
        inputs |-> <<[name |-> <<"i", "m", "a", "g", "e", "s">>, value |-> Scalar(5)]>>,
        options |-> <<>>],
       [id |-> <<"2">>, class_type |-> c2, title |-> <<"b">>,
        inputs |-> <<[name |-> <<"i", "m", "a", "g", "e", "s">>, value |-> Scalar(5)]>>,
        options |-> <<>>]>> :
        i \in {<<"1">>, <<"1", "1">>}, c1 \in OutputClassTypes, c2 \in OutputClassTypes}

\* output_path as an earlier request left it: empty, or holding the file an
\* output node wrote for some (session_id, node_id).
PriorDirs ==
    {EmptyDict} \cup
    {Put(EmptyDict, filename_prefix(s, i) \o c, <<s, i>>) :
        s \in Sessions, i \in OutputNodeIds, c \in Counters}

InitOutputs ==
    /\ NoPasses
    /\ NoInstall
    /\ workflow \in OutputDocuments
    /\ wf_pc = "template"
    /\ template_spec = NoSpec
    /\ populated_spec = NoSpec
    /\ wf_kwargs = <<>>
    /\ wf_raised = "none"
    /\ session_id = <<>>
    /\ output_dir \in PriorDirs
    /\ retrieved = <<>>
    /\ input_model = <<>>

NextOutputs ==
    /\ \/ ParseWorkflow
       \/ \E s \in Sessions : PopulateWorkflow(s, <<>>)
       \/ \E n \in DOMAIN workflow, c \in Counters : WriteOutput(n, c)
       \/ RetrieveOutputs
    /\ UNCHANGED <<modelvars, sharedvars, instvars>>

SpecOutputs == InitOutputs /\ [][NextOutputs]_vars

\* The recognised output nodes the parse lists.
Recognised ==
    {n \in OutputNodes : /\ workflow[n].class_type \in CPACK_OUTPUT_NODES
                         /\ NamesOf(n) # {}}

\* C15: with a single output node, populate sets its filename_prefix to
\* <session_id><node_id>_, resolution returns exactly the files whose names
\* begin with that prefix (one match alone, otherwise the list), and no file
\* returned was written for another (session_id, node_id).
C15_SingleOutput ==
    (wf_pc = "retrieved" /\ Cardinality(OutputNodes) = 1 /\ wf_raised = "none") =>
        \A n \in Recognised :
            LET prefix == session_id \o workflow[n].id \o <<"_">>
            IN  /\ input_value(workflow[n], <<"filename_prefix">>) = prefix
                /\ retrieved = path_or_list(glob(output_dir, prefix))
                /\ \A f \in retrieved.paths :
                       output_dir[f] = <<session_id, workflow[n].id>>

\* C20: with several output nodes, resolution returns for each of them
\* exactly the files whose names begin with the prefix populate gave the
\* node, for any session_id.
C20_MultiOutput ==
    (wf_pc = "retrieved" /\ Cardinality(OutputNodes) # 1) =>
        \A n \in Recognised : \A k \in NamesOf(n) :
            retrieved[k].paths =
                glob(output_dir, input_value(workflow[n], <<"filename_prefix">>))

\* ------------------------------------------------------ utils.py: schema
\* Numbers are counted in hundredths: 0.5 is 50, 1 is 100.
Number(t, x) == [type |-> t, hundredths |-> x]
One == 100

\* dict.get(key): the value as a set of at most one element.
get(options, key) == IF key \in DOMAIN options THEN {options[key]} ELSE {}

\* Lines 129-154: the field of one input node.
input_field(node) ==
    LET options == node.options
        value == node.inputs[1].value.v
        plain == [raised |-> "none", type |-> value.type, default |-> {value},
                  ge |-> {}, le |-> {}, values |-> <<>>]
    IN  IF node.class_type \in CPACK_PATH_INPUT_NODES
        THEN [raised |-> "none", type |-> "Path", default |-> {},
              ge |-> {}, le |-> {}, values |-> <<>>]
        ELSE IF node.class_type = "CPackInputValue"
        THEN IF DOMAIN options = {} THEN plain
             ELSE IF "values" \in DOMAIN options /\ options["values"] # <<>>
             THEN [plain EXCEPT !.type = "Literal", !.values = options["values"]]
             ELSE IF \E f \in {"min", "max", "round", "precision", "step"} :
                         f \in DOMAIN options
             THEN [plain EXCEPT
                      !.type = IF (IF "round" \in DOMAIN options
                                   THEN options["round"] ELSE One) < One
                               THEN "float" ELSE "int",
                      !.ge = get(options, "min"),
                      !.le = get(options, "max")]
             ELSE plain
        ELSE [raised |-> "ValueError", type |-> "none", default |-> {},
              ge |-> {}, le |-> {}, values |-> <<>>]

\* generate_input_model(workflow), utils.py 108-156: the fields by input
\* name, or the ValueError of an unsupported class.
generate_input_model(wf) ==
    LET inputs == _parse_workflow(wf).inputs
        fields == [k \in DOMAIN inputs |-> input_field(wf[inputs[k]])]
    IN  IF \E k \in DOMAIN inputs : fields[k].raised # "none"
        THEN [raised |-> "ValueError", fields |-> <<>>]
        ELSE [raised |-> "none", fields |-> fields]

GenerateInputModel ==
    /\ wf_pc = "template"
    /\ LET r == generate_input_model(workflow)
       IN  /\ input_model' = r.fields
           /\ wf_raised' = r.raised
    /\ wf_pc' = "modelled"
    /\ UNCHANGED <<workflow, template_spec, populated_spec, wf_kwargs,
                   session_id, output_dir, retrieved>>

\* node["_meta"]["options"]: none, the example {min: 0, max: 1, step: 0.01},
\* rounding to hundredths, to units and switched off, a bare precision, an
\* upper bound alone, a combo, and an empty combo with a bound.
Options ==
    {EmptyDict,
     [k \in {"min", "max", "step"} |->
         IF k = "min" THEN 0 ELSE IF k = "max" THEN 100 ELSE 1],
     [k \in {"min", "max", "round"} |->
         IF k = "min" THEN 0 ELSE IF k = "max" THEN 100 ELSE 1],
     [k \in {"min", "max", "round"} |->
         IF k = "min" THEN 0 ELSE IF k = "max" THEN 1000 ELSE 100],
     [k \in {"min", "round"} |-> 0],
     [k \in {"precision"} |-> 2],
     [k \in {"max"} |-> 100],
     [k \in {"values"} |-> <<50, 100>>],
     [k \in {"values", "min"} |-> IF k = "min" THEN 0 ELSE <<>>]}

SchemaValues == {Number("float", 50), Number("int", 100), Number("str", 0)}

SchemaDocuments ==
    {<<[id |-> <<"1">>, class_type |-> c, title |-> t,
        inputs |-> <<[name |-> <<"v", "a", "l", "u", "e">>, value |-> Scalar(v)]>>,
        options |-> o]>> :
        c \in {"CPackInputValue", "CPackInputImage", "CPackInputString", "KSampler"},
        t \in {<<"x">>, <<"M", "y", " ", "i", "m", "g">>},
        v \in SchemaValues, o \in Options}

InitSchema ==
    /\ NoPasses
    /\ NoInstall
    /\ workflow \in SchemaDocuments
    /\ wf_pc = "template"
    /\ template_spec = NoSpec
    /\ populated_spec = NoSpec
    /\ wf_kwargs = <<>>
    /\ wf_raised = "none"
    /\ session_id = <<>>
    /\ output_dir = <<>>
    /\ retrieved = <<>>
    /\ input_model = <<>>

NextSchema == GenerateInputModel /\ UNCHANGED <<modelvars, sharedvars, instvars>>

SpecSchema == InitSchema /\ [][NextSchema]_vars

NumericOptions(o) ==
    /\ \E f \in {"min", "max", "round", "precision", "step"} : f \in DOMAIN o
    /\ "values" \notin DOMAIN o

\* C16: a CPackInputValue input whose options carry any of min, max, round,
\* step or precision and no values list gets a numeric field: int if round
\* is at least 1 and float otherwise, default the node's value, bounded by
\* min and max; the example {min: 0, max: 1, step: 0.01} with value 0.5
\* gives a float field, default 0.5, bounds 0 and 1.
C16_SchemaNumericKind ==
    (wf_pc = "modelled" /\ wf_raised = "none") =>
        \A k \in DOMAIN input_model :
            LET node == workflow[1]
            IN  (node.class_type = "CPackInputValue" /\ NumericOptions(node.options)) =>
                    /\ input_model[k].type =
                           IF /\ "round" \in DOMAIN node.options
                              /\ node.options["round"] >= One
                           THEN "int" ELSE "float"
                    /\ input_model[k].default = {node.inputs[1].value.v}
                    /\ input_model[k].ge = get(node.options, "min")
                    /\ input_model[k].le = get(node.options, "max")

\* ------------------------------------------------- package.py: installers
\* Commit hashes, python versions and requirement files a snapshot may name;
\* snapshot["custom_nodes"] holds one module, whose commit is `node`.
Commits == {<<"a">>, <<"b">>}
Pythons == {"3.11", "3.12"}
Requirements == {"r1", "r2"}
Snapshots == [comfyui : Commits, node : Commits, python : Pythons,
              reqs : Requirements]

\* The custom node ships an install.py at these commits (line 77).
HasInstallScript(c) == c = <<"b">>

\* A directory: whether it exists, how far the clone in it got, the commit
\* checked out, and the content of its .DONE file if there is one.
AbsentDir == [exists |-> FALSE, stage |-> "none", head |-> <<>>, marker |-> {}]
EmptyDir == [AbsentDir EXCEPT !.exists = TRUE]
AbsentVenv == [exists |-> FALSE, python |-> "none", pip |-> FALSE,
               reqs |-> "none", marker |-> FALSE]

\* str.strip()
RECURSIVE strip(_)
strip(s) ==
    IF s = <<>> THEN s
    ELSE IF s[1] \in {" ", "\n", "\t"} THEN strip(Tail(s))
    ELSE IF s[Len(s)] \in {" ", "\n", "\t"} THEN strip(SubSeq(s, 1, Len(s) - 1))
    ELSE s

\* The directory an installer function works on, and the commit it wants.
target(call) == IF call.fn = "install_comfyui" THEN "workspace" ELSE "custom_node"
wanted(call) ==
    IF call.fn = "install_comfyui" THEN call.snapshot.comfyui ELSE call.snapshot.node

\* Lines 48-51 / 66-69 accepting any marker, whatever commit it holds.
up_to_date_any_marker(dir, commit) == dir.marker # {}

\* Lines 48-51 / 66-69: .DONE exists and holds the requested commit.
up_to_date(dir, commit) ==
    dir.marker # {} /\ \A m \in dir.marker : strip(m) = commit

\* shutil.rmtree: the workspace takes the custom node and .venv with it.
rmtree(ds, d) ==
    IF d = "workspace" THEN [x \in DOMAIN ds |-> AbsentDir]
    ELSE [ds EXCEPT ![d] = AbsentDir]

Return(result) ==
    /\ inst' = NoCall
    /\ inst_result' = result

\* install_comfyui, install_custom_modules or install_dependencies is called.
CallInstaller(fn, snapshot) ==
    /\ inst = NoCall
    /\ inst' = [fn |-> fn, snapshot |-> snapshot,
                step |-> IF fn = "install_dependencies" THEN "uv_python" ELSE "check"]
    /\ inst_ops' = NoInstOps
    /\ inst_result' = "running"
    /\ UNCHANGED <<dirs, venv>>

\* Lines 47-53 / 65-71: return if the marker holds the commit, else remove
\* the directory if it exists.
CheckMarker ==
    /\ inst.step = "check"
    /\ LET d == target(inst)
       IN  IF dirs[d].exists
           THEN IF up_to_date(dirs[d], wanted(inst))
                THEN Return("skipped") /\ UNCHANGED <<dirs, venv, inst_ops>>
                ELSE /\ dirs' = rmtree(dirs, d)
                     /\ venv' = IF d = "workspace" THEN AbsentVenv ELSE venv
                     /\ inst_ops' = [inst_ops EXCEPT !.rmtree = @ + 1]
                     /\ inst' = [inst EXCEPT !.step = "clone"]
                     /\ UNCHANGED inst_result
           ELSE /\ inst' = [inst EXCEPT !.step = "clone"]
                /\ UNCHANGED <<dirs, venv, inst_ops, inst_result>>

\* _clone_commit, line 19: git clone; the parent directories are created.
GitClone ==
    /\ inst.step = "clone"
    /\ dirs' = [d \in DOMAIN dirs |->
                   IF d = target(inst) THEN [EmptyDir EXCEPT !.stage = "cloned"]
                   ELSE IF d = "workspace" /\ ~dirs[d].exists THEN EmptyDir
                   ELSE dirs[d]]
    /\ inst_ops' = [inst_ops EXCEPT !.clone = @ + 1, !.commands = @ + 1]
    /\ inst' = [inst EXCEPT !.step = "fetch"]
    /\ UNCHANGED <<venv, inst_result>>

\* _clone_commit, line 24: git fetch.
GitFetch ==
    /\ inst.step = "fetch"
    /\ dirs' = [dirs EXCEPT ![target(inst)].stage = "fetched"]
    /\ inst_ops' = [inst_ops EXCEPT !.commands = @ + 1]
    /\ inst' = [inst EXCEPT !.step = "checkout"]
    /\ UNCHANGED <<venv, inst_result>>

\* _clone_commit, line 30: git checkout FETCH_HEAD.
GitCheckout ==
    /\ inst.step = "checkout"
    /\ dirs' = [dirs EXCEPT ![target(inst)].stage = "checked_out",
                            ![target(inst)].head = wanted(inst)]
    /\ inst_ops' = [inst_ops EXCEPT !.commands = @ + 1]
    /\ inst' = [inst EXCEPT !.step = "submodule"]
    /\ UNCHANGED <<venv, inst_result>>

\* _clone_commit, line 36: git submodule update; then install.py if the
\* custom node has one (line 77).
GitSubmodule ==
    /\ inst.step = "submodule"
    /\ dirs' = [dirs EXCEPT ![target(inst)].stage = "complete"]
    /\ inst_ops' = [inst_ops EXCEPT !.commands = @ + 1]
    /\ inst' = [inst EXCEPT !.step =
                   IF /\ inst.fn = "install_custom_modules"
                      /\ HasInstallScript(wanted(inst))
                   THEN "script" ELSE "marker"]
    /\ UNCHANGED <<venv, inst_result>>

\* Lines 87-91: python install.py in the module directory.
RunInstallScript ==
    /\ inst.step = "script"
    /\ dirs' = [dirs EXCEPT ![target(inst)].stage = "installed"]
    /\ inst_ops' = [inst_ops EXCEPT !.commands = @ + 1]
    /\ inst' = [inst EXCEPT !.step = "marker"]
    /\ UNCHANGED <<venv, inst_result>>

\* Lines 55-56 / 93-94: the commit is written to .DONE.
WriteMarker ==
    /\ inst.step = "marker"
    /\ dirs' = [dirs EXCEPT ![target(inst)].marker = {wanted(inst)}]
    /\ Return("installed")
    /\ UNCHANGED <<venv, inst_ops>>

\* A git command or install.py exits non-zero, or the process is killed
\* while it runs: the call ends with what has been done so far.  A failed
\* clone may leave its directory behind.
FailCommand ==
    /\ inst.step \in {"clone", "fetch", "checkout", "submodule", "script"}
    /\ \/ UNCHANGED dirs
       \/ /\ inst.step = "clone"
          /\ dirs' = [d \in DOMAIN dirs |->
                         IF d = target(inst) \/ (d = "workspace" /\ ~dirs[d].exists)
                         THEN EmptyDir ELSE dirs[d]]
    /\ Return("raised")
    /\ UNCHANGED <<venv, inst_ops>>

\* The process is killed between open(".DONE", "w") and the write.
InterruptWrite ==
    /\ inst.step = "marker"
    /\ dirs' = [dirs EXCEPT ![target(inst)].marker = {<<>>}]
    /\ Return("raised")
    /\ UNCHANGED <<venv, inst_ops>>

\* Lines 109-114: uv python install, run in the workspace.
UvPythonInstall ==
    /\ inst.step = "uv_python"
    /\ IF dirs["workspace"].exists
       THEN /\ inst_ops' = [inst_ops EXCEPT !.commands = @ + 1]
            /\ inst' = [inst EXCEPT !.step = "check_done"]
            /\ UNCHANGED inst_result
       ELSE Return("raised") /\ UNCHANGED inst_ops
    /\ UNCHANGED <<dirs, venv>>

\* Lines 115-117: return if .venv/DONE exists.
CheckDone ==
    /\ inst.step = "check_done"
    /\ IF venv.marker
       THEN Return("skipped")
       ELSE inst' = [inst EXCEPT !.step = "uv_venv"] /\ UNCHANGED inst_result
    /\ UNCHANGED <<dirs, venv, inst_ops>>

\* Lines 121-131: uv venv --python <version> .venv, a fresh environment.
UvVenv ==
    /\ inst.step = "uv_venv"
    /\ venv' = [AbsentVenv EXCEPT !.exists = TRUE, !.python = inst.snapshot.python]
    /\ inst_ops' = [inst_ops EXCEPT !.commands = @ + 1]
    /\ inst' = [inst EXCEPT !.step = "pip"]
    /\ UNCHANGED <<dirs, inst_result>>

\* Lines 132-143: uv pip install pip.
UvPipInstallPip ==
    /\ inst.step = "pip"
    /\ venv' = [venv EXCEPT !.pip = TRUE]
    /\ inst_ops' = [inst_ops EXCEPT !.commands = @ + 1]
    /\ inst' = [inst EXCEPT !.step = "reqs"]
    /\ UNCHANGED <<dirs, inst_result>>

\* Lines 144-157: uv pip install -r req_file --no-deps.
UvPipInstallRequirements ==
    /\ inst.step = "reqs"
    /\ venv' = [venv EXCEPT !.reqs = inst.snapshot.reqs]
    /\ inst_ops' = [inst_ops EXCEPT !.commands = @ + 1]
    /\ inst' = [inst EXCEPT !.step = "done"]
    /\ UNCHANGED <<dirs, inst_result>>

\* Lines 158-160: DONE is written.
WriteDone ==
    /\ inst.step = "done"
    /\ venv' = [venv EXCEPT !.marker = TRUE]
    /\ Return("installed")
    /\ UNCHANGED <<dirs, inst_ops>>

\* A uv command exits non-zero or the process is killed while it runs; a
\* failed uv venv may leave the directory behind.
FailUv ==
    /\ inst.step \in {"uv_python", "uv_venv", "pip", "reqs"}
    /\ \/ UNCHANGED venv
       \/ /\ inst.step = "uv_venv"
          /\ venv' = [AbsentVenv EXCEPT !.exists = TRUE]
    /\ Return("raised")
    /\ UNCHANGED <<dirs, inst_ops>>

InstallerFunctions == {"install_comfyui", "install_custom_modules",
                       "install_dependencies"}

\* Before the first call the workspace is absent or an empty directory.
InitInstall ==
    /\ NoPasses
    /\ NoWorkflow
    /\ dirs \in {[d \in {"workspace", "custom_node"} |->
                     IF d = "workspace" THEN w ELSE AbsentDir] :
                 w \in {AbsentDir, EmptyDir}}
    /\ venv = AbsentVenv
    /\ inst = NoCall
    /\ inst_ops = NoInstOps
    /\ inst_result = "none"
    /\ install_pc = [step |-> "none", snapshot |-> <<>>]

NextInstall ==
    /\ \/ \E fn \in InstallerFunctions, snapshot \in Snapshots :
              CallInstaller(fn, snapshot)
       \/ CheckMarker
       \/ GitClone
       \/ GitFetch
       \/ GitCheckout
       \/ GitSubmodule
       \/ RunInstallScript
       \/ WriteMarker
       \/ FailCommand
       \/ InterruptWrite
       \/ UvPythonInstall
       \/ CheckDone
       \/ UvVenv
       \/ UvPipInstallPip
       \/ UvPipInstallRequirements
       \/ WriteDone
       \/ FailUv
    /\ UNCHANGED <<modelvars, sharedvars, wfvars, install_pc>>

SpecInstall == InitInstall /\ [][NextInstall]_vars

\* Clone, fetch, checkout, submodule update and, where there is one, the
\* install script have all completed for commit c in this directory.
Completed(dir, d, c) ==
    /\ dir.exists
    /\ dir.head = c
    /\ dir.stage = IF d = "custom_node" /\ HasInstallScript(c)
                   THEN "installed" ELSE "complete"

\* C18: a .DONE marker holding commit c is present only in a directory where
\* the checkout of c (and the install script) completed, and is written only
\* then; a call that finds the marker of the requested commit deletes and
\* clones nothing; a call that finds the directory with no marker or another
\* one removes it and starts the clone from scratch.
C18_RepositoryMarker ==
    /\ [](\A d \in DOMAIN dirs : \A c \in Commits :
              dirs[d].marker = {c} => Completed(dirs[d], d, c))
    /\ [][/\ \A d \in DOMAIN dirs : \A c \in Commits :
                (dirs'[d].marker = {c} /\ dirs[d].marker # {c})
                    => Completed(dirs[d], d, c)
          /\ (inst.step = "check" /\ dirs[target(inst)].marker = {wanted(inst)})
                => /\ dirs' = dirs
                   /\ inst_ops' = inst_ops
                   /\ inst' = NoCall
          /\ (/\ inst.step = "check"
              /\ dirs[target(inst)].exists
              /\ dirs[target(inst)].marker # {wanted(inst)})
                => /\ ~dirs'[target(inst)].exists
                   /\ inst_ops'.rmtree = 1
                   /\ inst'.step = "clone"]_vars

\* A call for a repository found the marker of the requested commit and
\* returned at once; the custom node, which has an install script, and the
\* workspace both carry a marker.
C18_Witness ==
    /\ inst = NoCall
    /\ inst_result = "skipped"
    /\ \E d \in DOMAIN dirs : \E c \in Commits :
           /\ dirs[d].marker = {c}
           /\ d = "custom_node" /\ HasInstallScript(c)
           /\ dirs["workspace"].marker # {} /\ venv = AbsentVenv

\* C19: .venv/DONE exists only after uv venv and both uv pip install steps
\* succeeded, and a call that finds the marker runs no external command and
\* leaves the environment as it is.
C19_DependencyMarker ==
    /\ [](venv.marker => (venv.exists /\ venv.pip /\ venv.reqs \in Requirements))
    /\ [][(inst.fn = "install_dependencies" /\ venv.marker)
             => (inst_ops' = inst_ops /\ venv' = venv)]_vars

\* ------------------------------------------------------ package.py: install
\* install(cpack, workspace), lines 325-333: the archive is unpacked, its
\* snapshot read and install_comfyui called.
Install(snapshot) ==
    /\ install_pc.step \in {"none", "returned", "raised"}
    /\ CallInstaller("install_comfyui", snapshot)
    /\ install_pc' = [step |-> "install_comfyui", snapshot |-> snapshot]

\* The installer function raised: the exception leaves install().
InstallRaise ==
    /\ install_pc.step \in InstallerFunctions
    /\ inst = NoCall
    /\ inst_result = "raised"
    /\ install_pc' = [install_pc EXCEPT !.step = "raised"]
    /\ UNCHANGED <<dirs, venv, inst, inst_ops, inst_result>>

\* Line 334: install_comfyui returned, install_dependencies is called.
InstallDependencies ==
    /\ install_pc.step = "install_comfyui"
    /\ inst_result \in {"skipped", "installed"}
    /\ CallInstaller("install_dependencies", install_pc.snapshot)
    /\ install_pc' = [install_pc EXCEPT !.step = "install_dependencies"]

\* Lines 336-344: install_dependencies returned; the inputs are copied and
\* the models linked without download (both under workspace/input and
\* workspace/models, neither touching the repositories or .venv), then
\* install_custom_modules is called.  A failed copy leaves install().
InstallCustomModules ==
    /\ install_pc.step = "install_dependencies"
    /\ inst = NoCall
    /\ inst_result \in {"skipped", "installed"}
    /\ \/ /\ CallInstaller("install_custom_modules", install_pc.snapshot)
          /\ install_pc' = [install_pc EXCEPT !.step = "install_custom_modules"]
       \/ /\ install_pc' = [install_pc EXCEPT !.step = "raised"]
          /\ UNCHANGED <<dirs, venv, inst, inst_ops, inst_result>>

\* Line 346: install_custom_modules returned; the interactive
\* retrive_models pass runs and install() returns.
InstallReturn ==
    /\ install_pc.step = "install_custom_modules"
    /\ inst = NoCall
    /\ inst_result \in {"skipped", "installed"}
    /\ install_pc' = [install_pc EXCEPT !.step = "returned"]
    /\ UNCHANGED <<dirs, venv, inst, inst_ops, inst_result>>

NextPack ==
    /\ \/ \E snapshot \in Snapshots : Install(snapshot)
       \* a step inside the installer function install() is waiting for
       \/ /\ \/ CheckMarker
             \/ GitClone
             \/ GitFetch
             \/ GitCheckout
             \/ GitSubmodule
             \/ RunInstallScript
             \/ WriteMarker
             \/ FailCommand
             \/ InterruptWrite
             \/ UvPythonInstall
             \/ CheckDone
             \/ UvVenv
             \/ UvPipInstallPip
             \/ UvPipInstallRequirements
             \/ WriteDone
             \/ FailUv
          /\ UNCHANGED install_pc
       \/ InstallRaise
       \/ InstallDependencies
       \/ InstallCustomModules
       \/ InstallReturn
    /\ UNCHANGED <<modelvars, sharedvars, wfvars>>

SpecPack == InitInstall /\ [][NextPack]_vars

\* C21: whenever install() has returned and .venv/DONE is present, the
\* environment was built with the python version and the requirements file
\* of the snapshot of that call; a snapshot that changes either while
\* keeping the ComfyUI commit is rebuilt, not skipped.
C21_MarkerFreshness ==
    (install_pc.step = "returned" /\ venv.marker) =>
        /\ venv.python = install_pc.snapshot.python
        /\ venv.reqs = install_pc.snapshot.reqs

====
